---- MODULE Spec2Model ----
(***************************************************************************)
(* Revision replay and revision lookup of                                  *)
(* google/cloud/documentai_toolbox/wrappers/document_revision.py.          *)
(*                                                                         *)
(* from_gcs_prefix_with_revisions replays the revision shards of a         *)
(* document into a doubly linked chain of DocumentWithRevisions objects;   *)
(* at_revision walks that chain looking for a revision id.                 *)
(***************************************************************************)
EXTENDS Integers, Sequences, FiniteSets, TLC

(***************************************************************************)
(* Bounds of the model.                                                    *)
(***************************************************************************)
MaxRecs == 3        \* revision shards of one build under Spec
MaxOps == 3         \* entities of the revision shard under SpecPatch
MaxRecsTwice == 2   \* revision shards of one build under SpecTwice
MaxRecsReaders == 2 \* revision shards of the build under SpecReaders, SpecSteps

(***************************************************************************)
(* Python values.  Objects are identified by their index in the heap; the  *)
(* reference None is the index 0.  A revision id is a string; the id of    *)
(* the base object is Python's None, written NoneId here (no revision      *)
(* shard carries that id).                                                 *)
(***************************************************************************)
None == 0
NoneId == "<None>"

Last(s) == s[Len(s)]

(***************************************************************************)
(* Input values: the entities of a revision shard carry a provenance type, *)
(* an id (read through int(e.id)), a type_ and a mention_text.             *)
(***************************************************************************)
OpEntity(ptype, id, type_, text) ==
    [ptype |-> ptype, id |-> id, type_ |-> type_, mention_text |-> text]

AddAx == OpEntity("ADD", 1, "A", "x")
AddBy == OpEntity("ADD", 1, "B", "y")
UnspecifiedAy == OpEntity("OPERATION_TYPE_UNSPECIFIED", 1, "A", "y")
UpdateBx == OpEntity("UPDATE", 1, "B", "x")
RemoveOp(t) == OpEntity("REMOVE", t, "", "")
ReplaceOp(t) == OpEntity("REPLACE", t, "B", "y")

Targets == -1 .. 3

PatchOps ==
    {AddAx, AddBy, UnspecifiedAy, UpdateBx}
        \cup {RemoveOp(t) : t \in Targets}
        \cup {ReplaceOp(t) : t \in Targets}

SeqsUpTo(S, n) == UNION {[1 .. m -> S] : m \in 0 .. n}

Ids == {"r1", "r2", "r3"}
AllIds == <<"r1", "r2", "r3", "r4", "r5">>
NoParent == <<>>
SomeParent == <<"p">>

Revision(id, parent, entities) ==
    [id |-> id, parent |-> parent, entities |-> entities]

\* Shards of SpecPatch: one revision shard, every entity list over PatchOps.
ShardsPatch ==
    {Revision("r1", NoParent, ops) : ops \in SeqsUpTo(PatchOps, MaxOps)}

\* Shards of Spec: any id (repeated ones included) and the entity lists of
\* the replay scenarios.
Bodies ==
    { <<AddAx>>, <<AddBy>>, <<RemoveOp(1)>>, <<AddAx, RemoveOp(5)>> }

\* Shards of SpecTwice: any parent, entity lists with a Replace.
BodiesTwice == { <<AddAx>>, <<RemoveOp(1)>>, <<AddAx, ReplaceOp(1)>> }

LookupIds == Ids \cup {"missing", NoneId}

\* Shards and lookups of SpecReaders and SpecSteps: ids r1, r2 (repeated ones
\* included), one entity each; the threads calling at_revision.
ReaderRecIds == {"r1", "r2"}
ReaderIds == ReaderRecIds \cup {"missing", NoneId}
Readers == {"a", "b"}

(***************************************************************************)
(* State.                                                                  *)
(***************************************************************************)
VARIABLES
    heap,                    \* the DocumentWithRevisions objects, by identity
    root_revision,           \* the attribute set through the class (line 241)
    pc,                      \* position of from_gcs_prefix_with_revisions
    revs,                    \* its revision shards
    k,                       \* index of the shard the for loop is at
    immutable_revision_doc,  \* its local: the object the chain ends at
    j,                       \* entities of the shard consumed by _modify_docproto
    entities_array,          \* local of _modify_docproto
    history,                 \* local of _modify_docproto
    calls,                   \* finished calls of from_gcs_prefix_with_revisions
    last_call,               \* the latest at_revision call and what it returned
    readers                  \* per thread: its at_revision call, step by step

vars == <<heap, root_revision, pc, revs, k, immutable_revision_doc, j,
          entities_array, history, calls, last_call, readers>>

(***************************************************************************)
(* The shards the loop may read next: the first shard of a chain has no    *)
(* parent under Spec, and the ids follow AllIds under SpecTwice.           *)
(***************************************************************************)
ParentAt(i) == IF i = 1 THEN NoParent ELSE SomeParent

Shards ==
    {Revision(id, ParentAt(Len(revs) + 1), body) : id \in Ids, body \in Bodies}

ShardsTwice ==
    {Revision(AllIds[Len(revs) + 1], parent, body) :
        parent \in {NoParent, SomeParent}, body \in BodiesTwice}

ShardsReaders ==
    {Revision(id, ParentAt(Len(revs) + 1), <<AddAx>>) : id \in ReaderRecIds}

(***************************************************************************)
(* Entity wrapper (wrappers/entity.py).                                    *)
(***************************************************************************)
Entity(e) == [type_ |-> e.type_, mention_text |-> e.mention_text]

EntityReplace(ent, e) == [type_ |-> e.type_, mention_text |-> e.mention_text]

(***************************************************************************)
(* Python list indexing: a negative index counts from the end; an index    *)
(* outside the list raises IndexError.                                     *)
(***************************************************************************)
PyIndex(len, i) == IF i < 0 THEN i + len ELSE i

PyInRange(len, i) == PyIndex(len, i) >= 0 /\ PyIndex(len, i) < len

\* list.pop(i) for an index in range: the list without position i (0-based).
Pop(s, i) ==
    LET p == PyIndex(Len(s), i) + 1
    IN [q \in 1 .. Len(s) - 1 |-> IF q < p THEN s[q] ELSE s[q + 1]]

\* s[i] for an index in range (0-based).
Item(s, i) == s[PyIndex(Len(s), i) + 1]

(***************************************************************************)
(* _modify_docproto: one iteration of the loop over the shard's entities.  *)
(***************************************************************************)
HistoryEntry(e, type_, text) ==
    [object |-> "Entity", entity_provenance_type |-> e.ptype,
     original_entity |-> e, original_type |-> type_, original_text |-> text]

ReplaceHistoryEntry(e) ==
    [object |-> "Entity", entity_provenance_type |-> e.ptype,
     original_entity |-> e, original_type |-> e.type_,
     original_text |-> e.mention_text,
     replace_type |-> e.type_, replace_text |-> e.mention_text]

Frame(ea, h, raised) == [entities_array |-> ea, history |-> h, raised |-> raised]

\* A 0-based reading of the target index.
RemoveIndexZeroBased(e) == e.id

RemoveIndex(e) == e.id - 1

LoopBody(ea, h, e) ==
    IF e.ptype \in {"ADD", "OPERATION_TYPE_UNSPECIFIED"}
    THEN Frame(Append(ea, Entity(e)),
               Append(h, HistoryEntry(e, e.type_, e.mention_text)), FALSE)
    ELSE IF e.ptype = "REMOVE"
    THEN IF PyInRange(Len(ea), RemoveIndex(e))
         THEN LET entity == Item(ea, RemoveIndex(e))
              IN Frame(Pop(ea, RemoveIndex(e)),
                       Append(h, HistoryEntry(e, entity.type_, entity.mention_text)),
                       FALSE)
         ELSE Frame(ea, h, TRUE)
    ELSE IF e.ptype = "REPLACE"
    THEN LET h2 == Append(h, ReplaceHistoryEntry(e))
         IN IF PyInRange(Len(ea), e.id - 1)
            THEN Frame([ea EXCEPT ![PyIndex(Len(ea), e.id - 1) + 1] =
                                       EntityReplace(@, e)], h2, FALSE)
            ELSE Frame(ea, h2, TRUE)
    ELSE Frame(ea, h, FALSE)

(***************************************************************************)
(* DocumentWithRevisions objects.                                          *)
(***************************************************************************)
\* One history list shared by every object instead of a list per object.
NewHistoryShared == IF heap = <<>> THEN <<>> ELSE Last(heap).history

NewHistory == <<>>

DocumentWithRevisions(entities) ==
    [entities |-> entities, next_ |-> None, last |-> None,
     revision_id |-> NoneId, history |-> NewHistory]

\* The revision id left at its default.
RevisionIdUnset(rev) == NoneId

\* Line 233: the id the object of a shard takes.
RevisionId(rev) == rev.id

\* The new object's entity list is the predecessor's list object as well.
LinkSharedEntities(h, pred, n) ==
    [h EXCEPT ![pred].next_ = n, ![n].last = pred,
              ![pred].entities = h[n].entities]

\* The two links assigned to the wrong fields.
LinkSwapped(h, pred, n) ==
    [h EXCEPT ![pred].last = n, ![n].next_ = pred]

\* The backward link alone.
LinkNoNext(h, pred, n) ==
    [h EXCEPT ![n].last = pred]

\* Lines 235-236: thread the new object n after the object pred.
Link(h, pred, n) ==
    [h EXCEPT ![pred].next_ = n, ![n].last = pred]

(***************************************************************************)
(* from_gcs_prefix_with_revisions.                                         *)
(***************************************************************************)
Call(input, outcome, value, base) ==
    [revs |-> input, outcome |-> outcome, value |-> value, base |-> base]

\* Lines 218-223: the base object is made.  The shards are drawn as the
\* loop reads them: revs holds the shards read so far.
FromGcsPrefix(builds) ==
    /\ pc = "idle"
    /\ Len(calls) < builds
    /\ revs' = <<>>
    /\ heap' = Append(heap, DocumentWithRevisions(<<>>))
    /\ immutable_revision_doc' = Len(heap) + 1
    /\ k' = 0
    /\ j' = 0
    /\ entities_array' = <<>>
    /\ history' = <<>>
    /\ last_call' = <<>>
    /\ pc' = "for_rev"
    /\ UNCHANGED readers
    /\ UNCHANGED <<root_revision, calls>>

\* Lines 225-228, 116-118: the next shard; _modify_docproto starts.
NextRev(shards, most) ==
    /\ pc = "for_rev"
    /\ Len(revs) < most
    /\ \E rev \in shards : revs' = Append(revs, rev)
    /\ k' = k + 1
    /\ j' = 0
    /\ entities_array' = <<>>
    /\ history' = <<>>
    /\ pc' = "modify"
    /\ UNCHANGED readers
    /\ UNCHANGED <<heap, root_revision, immutable_revision_doc, calls,
                   last_call>>

\* Lines 119-158: one entity of the shard; an IndexError leaves the call.
ModifyStep ==
    /\ pc = "modify"
    /\ j < Len(revs[k].entities)
    /\ LET r == LoopBody(entities_array, history, revs[k].entities[j + 1])
       IN /\ entities_array' = r.entities_array
          /\ history' = r.history
          /\ IF r.raised
             THEN /\ pc' = "idle"
                  /\ j' = j
                  /\ calls' = Append(calls,
                                     Call(revs, "IndexError", None,
                                          immutable_revision_doc - (k - 1)))
             ELSE /\ pc' = "modify"
                  /\ j' = j + 1
                  /\ calls' = calls
    /\ UNCHANGED readers
    /\ UNCHANGED <<heap, root_revision, revs, k, immutable_revision_doc,
                   last_call>>

\* Lines 159, 230-241: the object of the shard is made and linked.
LinkRev ==
    /\ pc = "modify"
    /\ j = Len(revs[k].entities)
    /\ LET n == Len(heap) + 1
           fresh == DocumentWithRevisions(entities_array)
           revision_doc ==
               [fresh EXCEPT !.history = @ \o history,
                             !.revision_id = RevisionId(revs[k])]
       IN /\ heap' = Link(Append(heap, revision_doc), immutable_revision_doc, n)
          /\ immutable_revision_doc' = n
          /\ root_revision' =
                 IF revs[k].parent = <<>> THEN n ELSE root_revision
    /\ pc' = "for_rev"
    /\ UNCHANGED readers
    /\ UNCHANGED <<revs, k, j, entities_array, history, calls, last_call>>

\* Line 243: there is no further shard.
Return ==
    /\ pc = "for_rev"
    /\ calls' = Append(calls,
                       Call(revs, "returned", immutable_revision_doc,
                            immutable_revision_doc - k))
    /\ pc' = "idle"
    /\ UNCHANGED readers
    /\ UNCHANGED <<heap, root_revision, revs, k, immutable_revision_doc, j,
                   entities_array, history, last_call>>

(***************************************************************************)
(* at_revision.                                                            *)
(***************************************************************************)
Walk(h, self) == [heap |-> h, self |-> self]

\* No backward walk at all.
BackwardNoWalk(h, self, id) == Walk(h, self)

\* A backward walk that goes to the base whatever the id.
RECURSIVE BackwardToBase(_, _, _)
BackwardToBase(h, self, id) ==
    IF h[self].last # None
    THEN LET m_next == self
             s == h[self].last
         IN BackwardToBase([h EXCEPT ![s].next_ = m_next], s, id)
    ELSE Walk(h, self)

\* Lines 246-249.
RECURSIVE Backward(_, _, _)
Backward(h, self, id) ==
    IF h[self].last # None /\ id # h[self].revision_id
    THEN LET m_next == self
             s == h[self].last
         IN Backward([h EXCEPT ![s].next_ = m_next], s, id)
    ELSE Walk(h, self)

\* No forward walk at all.
ForwardNoWalk(h, self, id) == Walk(h, self)

\* Lines 254-257.
RECURSIVE Forward(_, _, _)
Forward(h, self, id) ==
    IF h[self].next_ # None /\ id # h[self].revision_id
    THEN LET m_last == self
             s == h[self].next_
         IN Forward([h EXCEPT ![s].last = m_last], s, id)
    ELSE Walk(h, self)

Object(n) == [kind |-> "object", ref |-> n, val |-> ""]
Str(s) == [kind |-> "str", ref |-> None, val |-> s]

Result(h, ret) == [heap |-> h, ret |-> ret]

\* Lines 245-262.
at_revision(h, self, id) ==
    LET b == Backward(h, self, id)
    IN IF id = b.heap[b.self].revision_id
       THEN Result(b.heap, Object(b.self))
       ELSE LET f == Forward(b.heap, b.self, id)
            IN IF id = f.heap[f.self].revision_id
               THEN Result(f.heap, Object(f.self))
               ELSE Result(f.heap, Str("Not Found"))

\* The objects of the chain a finished call returned.
ChainOf(c) == c.base .. c.value

Returned(c) == c.outcome = "returned"

AtRevision ==
    /\ pc = "idle"
    /\ \E i \in 1 .. Len(calls) :
          /\ Returned(calls[i])
          /\ \E self \in ChainOf(calls[i]), id \in LookupIds :
                LET r == at_revision(heap, self, id)
                IN /\ heap' = r.heap
                   /\ last_call' = <<[self |-> self, id |-> id, ret |-> r.ret]>>
    /\ UNCHANGED readers
    /\ UNCHANGED <<root_revision, pc, revs, k, immutable_revision_doc, j,
                   entities_array, history, calls>>

(***************************************************************************)
(* at_revision step by step: every read of a link, every write of a link   *)
(* and every test is a step of the calling thread.                         *)
(***************************************************************************)
NoReturn == [kind |-> "none", ref |-> None, val |-> ""]

NoReader ==
    [pc |-> "idle", start |-> None, self |-> None, id |-> NoneId, m |-> None,
     ret |-> NoReturn, visits |-> <<>>]

\* The snapshots self was bound to, counted up to "more than twice".
Visit(visits, n) ==
    [visits EXCEPT ![n] = IF @ < 3 THEN @ + 1 ELSE @]

\* Line 246 and line 254: the loop conditions.
BackCond(h, self, id) == h[self].last # None /\ id # h[self].revision_id

FwdCond(h, self, id) == h[self].next_ # None /\ id # h[self].revision_id

\* A forward step that stays where it is.
FwdMoveStay(h, self) == self

\* Line 248 and line 256: self = self.last, self = self.next_.
BackMove(h, self) == h[self].last

FwdMove(h, self) == h[self].next_

\* The backward pass writing the other link.
BackWriteLast(h, self, m_next) == [h EXCEPT ![self].last = m_next]

\* Line 249 and line 257: self.next_ = m_next, self.last = m_last.
BackWrite(h, self, m_next) == [h EXCEPT ![self].next_ = m_next]

FwdWrite(h, self, m_last) == [h EXCEPT ![self].last = m_last]

Rest == <<root_revision, pc, revs, k, immutable_revision_doc, j,
          entities_array, history, calls, last_call>>

\* Line 245: a thread calls at_revision(id) on a snapshot of a built chain.
StartLookup(r) ==
    /\ pc = "idle"
    /\ readers[r].pc \in {"idle", "done"}
    /\ \E i \in 1 .. Len(calls) :
          /\ Returned(calls[i])
          /\ \E self \in ChainOf(calls[i]), id \in ReaderIds :
                readers' =
                    [readers EXCEPT ![r] =
                        [pc |-> "b_test", start |-> self, self |-> self,
                         id |-> id, m |-> None, ret |-> NoReturn,
                         visits |-> Visit([n \in 1 .. Len(heap) |-> 0], self)]]
    /\ UNCHANGED <<heap, Rest>>

\* Line 246.
BackTest(r) ==
    /\ readers[r].pc = "b_test"
    /\ readers' =
           [readers EXCEPT ![r].pc =
               IF BackCond(heap, readers[r].self, readers[r].id)
               THEN "b_move" ELSE "b_check"]
    /\ UNCHANGED <<heap, Rest>>

\* Lines 247-248.
BackMoveStep(r) ==
    /\ readers[r].pc = "b_move"
    /\ LET s == BackMove(heap, readers[r].self)
       IN readers' =
              [readers EXCEPT ![r].m = readers[r].self,
                              ![r].self = s,
                              ![r].visits = Visit(@, s),
                              ![r].pc = "b_write"]
    /\ UNCHANGED <<heap, Rest>>

\* Line 249.
BackWriteStep(r) ==
    /\ readers[r].pc = "b_write"
    /\ heap' = BackWrite(heap, readers[r].self, readers[r].m)
    /\ readers' = [readers EXCEPT ![r].pc = "b_test"]
    /\ UNCHANGED Rest

\* Lines 251-252.
BackCheck(r) ==
    /\ readers[r].pc = "b_check"
    /\ readers' =
           IF readers[r].id = heap[readers[r].self].revision_id
           THEN [readers EXCEPT ![r].pc = "done",
                                ![r].ret = Object(readers[r].self)]
           ELSE [readers EXCEPT ![r].pc = "f_test"]
    /\ UNCHANGED <<heap, Rest>>

\* Line 254.
FwdTest(r) ==
    /\ readers[r].pc = "f_test"
    /\ readers' =
           [readers EXCEPT ![r].pc =
               IF FwdCond(heap, readers[r].self, readers[r].id)
               THEN "f_move" ELSE "f_check"]
    /\ UNCHANGED <<heap, Rest>>

\* Lines 255-256.
FwdMoveStep(r) ==
    /\ readers[r].pc = "f_move"
    /\ LET s == FwdMove(heap, readers[r].self)
       IN readers' =
              [readers EXCEPT ![r].m = readers[r].self,
                              ![r].self = s,
                              ![r].visits = Visit(@, s),
                              ![r].pc = "f_write"]
    /\ UNCHANGED <<heap, Rest>>

\* Line 257.
FwdWriteStep(r) ==
    /\ readers[r].pc = "f_write"
    /\ heap' = FwdWrite(heap, readers[r].self, readers[r].m)
    /\ readers' = [readers EXCEPT ![r].pc = "f_test"]
    /\ UNCHANGED Rest

\* Lines 259-262.
FwdCheck(r) ==
    /\ readers[r].pc = "f_check"
    /\ readers' =
           [readers EXCEPT ![r].pc = "done",
                           ![r].ret =
                               IF readers[r].id =
                                      heap[readers[r].self].revision_id
                               THEN Object(readers[r].self)
                               ELSE Str("Not Found")]
    /\ UNCHANGED <<heap, Rest>>

ReaderStep(r) ==
    \/ BackTest(r) \/ BackMoveStep(r) \/ BackWriteStep(r) \/ BackCheck(r)
    \/ FwdTest(r) \/ FwdMoveStep(r) \/ FwdWriteStep(r) \/ FwdCheck(r)

(***************************************************************************)
(* Specifications.                                                         *)
(***************************************************************************)
Init ==
    /\ heap = <<>>
    /\ root_revision = None
    /\ pc = "idle"
    /\ revs = <<>>
    /\ k = 0
    /\ immutable_revision_doc = None
    /\ j = 0
    /\ entities_array = <<>>
    /\ history = <<>>
    /\ calls = <<>>
    /\ last_call = <<>>
    /\ readers = [r \in Readers |-> NoReader]

Replay == ModifyStep \/ LinkRev \/ Return

\* One build over any ids and the replay scenarios, then lookups.
Next == FromGcsPrefix(1) \/ NextRev(Shards, MaxRecs) \/ Replay \/ AtRevision

Spec == Init /\ [][Next]_vars

\* _modify_docproto over every entity list of one shard.
NextPatch == FromGcsPrefix(1) \/ NextRev(ShardsPatch, 1) \/ Replay

SpecPatch == Init /\ [][NextPatch]_vars

\* Two builds in one process.
NextTwice ==
    FromGcsPrefix(2) \/ NextRev(ShardsTwice, MaxRecsTwice) \/ Replay

SpecTwice == Init /\ [][NextTwice]_vars

\* One build, then at_revision calls of several threads, interleaved step
\* by step.
NextReaders ==
    \/ FromGcsPrefix(1) \/ NextRev(ShardsReaders, MaxRecsReaders) \/ Replay
    \/ \E r \in Readers : StartLookup(r) \/ ReaderStep(r)

SpecReaders == Init /\ [][NextReaders]_vars

\* One build, then at_revision calls of one thread, one after the other; a
\* call that has started keeps running.
NextSteps ==
    \/ FromGcsPrefix(1) \/ NextRev(ShardsReaders, MaxRecsReaders) \/ Replay
    \/ StartLookup("a") \/ ReaderStep("a")

SpecSteps == Init /\ [][NextSteps]_vars /\ WF_vars(ReaderStep("a"))

(***************************************************************************)
(* Vocabulary of the properties.                                           *)
(***************************************************************************)
\* Objects are made in chain order: the object of shard n of a finished call.
Snapshot(c, n) == heap[c.base + n]

Finished == {calls[i] : i \in 1 .. Len(calls)}

AtOp == pc = "modify" /\ j < Len(revs[k].entities)

CurOp == revs[k].entities[j + 1]

Front(s) == SubSeq(s, 1, Len(s) - 1)

(***************************************************************************)
(* C1: the entity list of the snapshot of record k is the result of        *)
(* applying record k's operations, in order, to the entity list of the     *)
(* preceding snapshot (the base's empty list for k = 1).                   *)
(***************************************************************************)
RECURSIVE ReplayFrom(_, _)
ReplayFrom(start, ops) ==
    IF ops = <<>>
    THEN Frame(start, <<>>, FALSE)
    ELSE LET r == ReplayFrom(start, Front(ops))
         IN IF r.raised THEN r
            ELSE LoopBody(r.entities_array, r.history, Last(ops))

CE_C1 ==
    \A c \in Finished :
        Returned(c) =>
            \A n \in 1 .. Len(c.revs) :
                Snapshot(c, n).entities =
                    ReplayFrom(Snapshot(c, n - 1).entities,
                           c.revs[n].entities).entities_array

(***************************************************************************)
(* C2: a Remove or Replace whose target index is outside                   *)
(* 1..len(entities) fails with an out-of-range error and leaves the        *)
(* entity list as it was.                                                  *)
(***************************************************************************)
OutOfRangeOp ==
    /\ AtOp
    /\ CurOp.ptype \in {"REMOVE", "REPLACE"}
    /\ CurOp.id \notin 1 .. Len(entities_array)

CE_C2 ==
    [][OutOfRangeOp =>
          /\ pc' = "idle"
          /\ Last(calls').outcome = "IndexError"
          /\ entities_array' = entities_array]_vars

(***************************************************************************)
(* C3: when an operation of record k fails, no snapshot is made for        *)
(* record k and the caller still holds the chain of the base and of        *)
(* records 1..k-1.                                                         *)
(***************************************************************************)
CE_C3 ==
    \A c \in Finished :
        c.outcome = "IndexError" =>
            /\ c.value # None
            /\ c.value \in c.base .. Len(heap)
            /\ heap[c.value].next_ = None

(***************************************************************************)
(* C4: an at_revision call, for any id and on any snapshot of a built      *)
(* chain, leaves the links, revision id, entity list and history of every  *)
(* snapshot as they were.                                                  *)
(***************************************************************************)
Thm_C4 == [][(pc = "idle" /\ pc' = "idle") => heap' = heap]_vars

Wit_C4 ==
    /\ last_call # <<>>
    /\ last_call[1].id = "missing"
    /\ \E c \in Finished :
          /\ Returned(c)
          /\ Len(c.revs) >= 2
          /\ last_call[1].self = c.value

(***************************************************************************)
(* C5: at_revision(id) on the returned tail, for the id of a record of     *)
(* the input, returns the snapshot built from that record.                 *)
(***************************************************************************)
TailLookup(c) ==
    /\ last_call # <<>>
    /\ Returned(c)
    /\ last_call[1].self = c.value

CE_C5 ==
    \A c \in Finished :
        TailLookup(c) =>
            \A n \in 1 .. Len(c.revs) :
                c.revs[n].id = last_call[1].id =>
                    last_call[1].ret = Object(c.base + n)

\* Amended: it returns a snapshot whose revision id is id, the one built from
\* the last record of the input that carries id.
LastWithId(c, n) ==
    /\ c.revs[n].id = last_call[1].id
    /\ \A m \in n + 1 .. Len(c.revs) : c.revs[m].id # last_call[1].id

Thm_C5 ==
    \A c \in Finished :
        TailLookup(c) =>
            \A n \in 1 .. Len(c.revs) :
                LastWithId(c, n) =>
                    /\ last_call[1].ret = Object(c.base + n)
                    /\ heap[c.base + n].revision_id = last_call[1].id

Wit_C5 ==
    \E c \in Finished :
        /\ TailLookup(c)
        /\ Len(c.revs) = 3
        /\ c.revs[1].id = last_call[1].id
        /\ c.revs[2].id = last_call[1].id
        /\ c.revs[3].id # last_call[1].id
        /\ last_call[1].ret = Object(c.base + 2)

(***************************************************************************)
(* C6: at_revision(id) for an id that no snapshot of the chain carries     *)
(* returns a not-found value that is no snapshot and no string.            *)
(***************************************************************************)
MissingLookup ==
    /\ last_call # <<>>
    /\ \E c \in Finished :
          /\ Returned(c)
          /\ last_call[1].self \in ChainOf(c)
          /\ \A n \in ChainOf(c) : heap[n].revision_id # last_call[1].id

CE_C6 == MissingLookup => last_call[1].ret.kind \notin {"object", "str"}

(***************************************************************************)
(* C7: within one record the operations are applied in list order, each    *)
(* target index resolved (1-based) against the list as left by the         *)
(* earlier operations of the record: [Add A, Add B, Remove 1] leaves [B].  *)
(***************************************************************************)
RemoveAt(s, t) == [q \in 1 .. Len(s) - 1 |-> IF q < t THEN s[q] ELSE s[q + 1]]

Payload(e) == [type_ |-> e.type_, mention_text |-> e.mention_text]

\* The list the claim describes; ok is FALSE once an operation is outside
\* the claim (a target out of range, a tag other than the four).
RECURSIVE InOrder(_)
InOrder(ops) ==
    IF ops = <<>>
    THEN [ok |-> TRUE, entities |-> <<>>]
    ELSE LET p == InOrder(Front(ops))
             e == Last(ops)
             inside == e.id \in 1 .. Len(p.entities)
         IN IF ~p.ok THEN p
            ELSE IF e.ptype \in {"ADD", "OPERATION_TYPE_UNSPECIFIED"}
            THEN [ok |-> TRUE, entities |-> Append(p.entities, Payload(e))]
            ELSE IF e.ptype = "REMOVE" /\ inside
            THEN [ok |-> TRUE, entities |-> RemoveAt(p.entities, e.id)]
            ELSE IF e.ptype = "REPLACE" /\ inside
            THEN [ok |-> TRUE,
                  entities |-> [p.entities EXCEPT ![e.id] = Payload(e)]]
            ELSE [ok |-> FALSE, entities |-> p.entities]

Thm_C7 ==
    /\ pc = "modify" =>
          LET p == InOrder(SubSeq(revs[k].entities, 1, j))
          IN p.ok => entities_array = p.entities
    /\ (pc = "for_rev" /\ k > 0) =>
          LET p == InOrder(revs[k].entities)
          IN p.ok => heap[immutable_revision_doc].entities = p.entities

Wit_C7 ==
    /\ pc = "for_rev"
    /\ k = 1
    /\ revs[1].entities = <<AddAx, AddBy, RemoveOp(1)>>
    /\ heap[immutable_revision_doc].entities =
           <<[type_ |-> "B", mention_text |-> "y"]>>

(***************************************************************************)
(* C8: from an empty base, a record [Add(K, T)] followed by a record       *)
(* [Remove 1] builds, and the tail's entity list is empty again.           *)
(***************************************************************************)
AddThenRemove(c) ==
    /\ Len(c.revs) = 2
    /\ c.revs[1].entities \in {<<AddAx>>, <<AddBy>>}
    /\ c.revs[2].entities = <<RemoveOp(1)>>

CE_C8 ==
    \A c \in Finished :
        AddThenRemove(c) =>
            /\ Returned(c)
            /\ heap[c.value].entities = <<>>

(***************************************************************************)
(* C9: a Replace in range overwrites the targeted entity with the          *)
(* payload, keeps the length and the other positions, and its history      *)
(* entry holds the kind/text the entity had before and the payload's as    *)
(* replacement.                                                            *)
(***************************************************************************)
InRangeReplace ==
    /\ AtOp
    /\ CurOp.ptype = "REPLACE"
    /\ CurOp.id \in 1 .. Len(entities_array)

CE_C9 ==
    [][InRangeReplace =>
          /\ Len(entities_array') = Len(entities_array)
          /\ \A q \in 1 .. Len(entities_array) :
                entities_array'[q] =
                    IF q = CurOp.id THEN Payload(CurOp) ELSE entities_array[q]
          /\ Len(history') = Len(history) + 1
          /\ Last(history').original_type = entities_array[CurOp.id].type_
          /\ Last(history').original_text =
                 entities_array[CurOp.id].mention_text
          /\ Last(history').replace_type = CurOp.type_
          /\ Last(history').replace_text = CurOp.mention_text]_vars

(***************************************************************************)
(* C10: two builds from the same input, in one process and whatever was    *)
(* built in between, end the same way and give the same                    *)
(* revision id, entity list and history at every position.                 *)
(***************************************************************************)
Thm_C10 ==
    \A a, b \in Finished :
        a.revs = b.revs =>
            /\ a.outcome = b.outcome
            /\ Returned(a) =>
                  \A n \in 0 .. Len(a.revs) :
                      /\ Snapshot(a, n).revision_id = Snapshot(b, n).revision_id
                      /\ Snapshot(a, n).entities = Snapshot(b, n).entities
                      /\ Snapshot(a, n).history = Snapshot(b, n).history

Wit_C10 ==
    /\ Len(calls) = 2
    /\ calls[1].revs = calls[2].revs
    /\ Returned(calls[2])
    /\ Len(calls[1].revs) = 2
    /\ calls[1].base # calls[2].base

(***************************************************************************)
(* C11: root_revision read from a chain is None or a snapshot of that      *)
(* chain built from a record without parent, and None when no record of    *)
(* the chain lacks a parent, whatever was built before.                    *)
(***************************************************************************)
RootOf(c) ==
    /\ root_revision \in c.base + 1 .. c.value
    /\ c.revs[root_revision - c.base].parent = NoParent

CE_C11 ==
    (pc = "idle" /\ calls # <<>> /\ Returned(Last(calls))) =>
        LET c == Last(calls)
        IN /\ root_revision = None \/ RootOf(c)
           /\ (\A n \in 1 .. Len(c.revs) : c.revs[n].parent # NoParent) =>
                  root_revision = None

(***************************************************************************)
(* C12: every operation whose tag is neither Remove nor Replace            *)
(* (Unspecified and unknown tags included) appends an entity built from    *)
(* its payload and produces a history entry; none is skipped.              *)
(***************************************************************************)
AddLikeOp == AtOp /\ CurOp.ptype \notin {"REMOVE", "REPLACE"}

CE_C12 ==
    [][AddLikeOp =>
          /\ entities_array' = Append(entities_array, Payload(CurOp))
          /\ Len(history') = Len(history) + 1
          /\ Last(history').original_entity = CurOp]_vars

(***************************************************************************)
(* C13: the history of the snapshot of a record has exactly one entry per  *)
(* operation of that record, in operation order, and nothing of another    *)
(* record; the history of the base is empty.                               *)
(***************************************************************************)
OwnHistory(h, ops) ==
    /\ Len(h) = Len(ops)
    /\ \A i \in 1 .. Len(ops) : h[i].original_entity = ops[i]

CE_C13 ==
    \A c \in Finished :
        Returned(c) =>
            /\ Snapshot(c, 0).history = <<>>
            /\ \A n \in 1 .. Len(c.revs) :
                  OwnHistory(Snapshot(c, n).history, c.revs[n].entities)

(***************************************************************************)
(* C14: after a build over n records the chain has n + 1 snapshots in      *)
(* input order: the base has no prev, the snapshot of record k has the     *)
(* snapshot of record k - 1 as prev, prev and next are mutually inverse,   *)
(* and the returned object is the tail.                                    *)
(***************************************************************************)
\* The objects met from n through last, head first, and from n through next_.
RECURSIVE BackChain(_, _)
BackChain(n, fuel) ==
    IF n = None \/ fuel = 0 THEN <<>>
    ELSE Append(BackChain(heap[n].last, fuel - 1), n)

RECURSIVE FwdChain(_, _)
FwdChain(n, fuel) ==
    IF n = None \/ fuel = 0 THEN <<>>
    ELSE <<n>> \o FwdChain(heap[n].next_, fuel - 1)

ChainFrom(c) == BackChain(c.value, Len(heap) + 1)

Thm_C14 ==
    \A c \in Finished :
        Returned(c) =>
            LET chain == ChainFrom(c)
            IN /\ Len(chain) = Len(c.revs) + 1
               /\ Last(chain) = c.value
               /\ heap[c.value].next_ = None
               /\ FwdChain(chain[1], Len(heap) + 1) = chain
               /\ \A i \in 1 .. Len(c.revs) :
                     /\ heap[chain[i + 1]].last = chain[i]
                     /\ heap[chain[i]].next_ = chain[i + 1]
                     /\ heap[chain[i + 1]].revision_id = c.revs[i].id
                     /\ heap[chain[i + 1]].history # <<>> =>
                            heap[chain[i + 1]].history[1].original_entity =
                                c.revs[i].entities[1]

Wit_C14 ==
    \E c \in Finished :
        /\ Returned(c)
        /\ Len(c.revs) = 3
        /\ Len(ChainFrom(c)) = 4
        /\ c.revs[1].entities # c.revs[2].entities
        /\ last_call # <<>>

(***************************************************************************)
(* C15: exactly one snapshot of a chain has the null revision id, the      *)
(* base at the head of the chain; the snapshot of a record has the         *)
(* record's id.                                                            *)
(***************************************************************************)
Range(s) == {s[i] : i \in 1 .. Len(s)}

Thm_C15 ==
    \A c \in Finished :
        Returned(c) =>
            LET chain == ChainFrom(c)
            IN /\ {n \in Range(chain) : heap[n].revision_id = NoneId} =
                      {chain[1]}
               /\ heap[chain[1]].last = None
               /\ \A i \in 2 .. Len(chain) :
                     heap[chain[i]].revision_id = c.revs[i - 1].id

Wit_C15 ==
    \E c \in Finished :
        /\ Returned(c)
        /\ Len(c.revs) = 2
        /\ Len(ChainFrom(c)) = 3
        /\ heap[c.value].revision_id = "r2"

(***************************************************************************)
(* C17: replaying a further record changes no entity list, history or      *)
(* revision id of the snapshots already built; of their links only the     *)
(* next link of the predecessor is set.                                    *)
(***************************************************************************)
Thm_C17 ==
    [][\A n \in 1 .. Len(heap) :
          /\ Len(heap') >= Len(heap)
          /\ heap'[n].entities = heap[n].entities
          /\ heap'[n].history = heap[n].history
          /\ heap'[n].revision_id = heap[n].revision_id
          /\ heap'[n].last = heap[n].last
          /\ heap'[n].next_ # heap[n].next_ =>
                /\ n = immutable_revision_doc
                /\ heap[n].next_ = None
                /\ heap'[n].next_ = Len(heap) + 1]_vars

Wit_C17 ==
    /\ pc = "for_rev"
    /\ k = 2
    /\ revs[1].entities = <<AddAx>>
    /\ revs[2].entities = <<AddAx, ReplaceOp(1)>>
    /\ heap[immutable_revision_doc].entities =
           <<[type_ |-> "B", mention_text |-> "y"]>>
    /\ heap[immutable_revision_doc - 1].next_ = immutable_revision_doc

(***************************************************************************)
(* C18: when the record ids of a chain are pairwise distinct, the result   *)
(* of at_revision(id) is the same whichever snapshot of the chain it is    *)
(* invoked on.                                                             *)
(***************************************************************************)
DistinctIds(c) ==
    \A m, n \in 1 .. Len(c.revs) : c.revs[m].id = c.revs[n].id => m = n

LookupOn(c) ==
    /\ last_call # <<>>
    /\ Returned(c)
    /\ last_call[1].self \in ChainOf(c)

\* What the call gives whatever the start: the one snapshot carrying the id,
\* or the not-found string.
Thm_C18 ==
    \A c \in Finished :
        (LookupOn(c) /\ DistinctIds(c)) =>
            /\ \A n \in ChainOf(c) :
                  heap[n].revision_id = last_call[1].id =>
                      last_call[1].ret = Object(n)
            /\ (\A n \in ChainOf(c) : heap[n].revision_id # last_call[1].id) =>
                  last_call[1].ret = Str("Not Found")

Wit_C18 ==
    \E c \in Finished :
        /\ LookupOn(c)
        /\ DistinctIds(c)
        /\ Len(c.revs) = 3
        /\ last_call[1].self = c.base + 1
        /\ last_call[1].id = c.revs[3].id
        /\ last_call[1].ret = Object(c.value)

(***************************************************************************)
(* C19: at_revision(None) on any snapshot of a chain returns the base      *)
(* snapshot, not the not-found outcome.                                    *)
(***************************************************************************)
Thm_C19 ==
    \A c \in Finished :
        (LookupOn(c) /\ last_call[1].id = NoneId) =>
            /\ last_call[1].ret = Object(ChainFrom(c)[1])
            /\ heap[last_call[1].ret.ref].revision_id = NoneId

Wit_C19 ==
    \E c \in Finished :
        /\ LookupOn(c)
        /\ last_call[1].id = NoneId
        /\ Len(c.revs) = 3
        /\ last_call[1].self = c.value
        /\ last_call[1].ret = Object(c.base)

(***************************************************************************)
(* C16: at_revision calls of several threads, under every interleaving of  *)
(* their link reads and writes, each return what the same call returns     *)
(* run alone, and the links stay as they were built.                       *)
(***************************************************************************)
LinksAsBuilt(c) ==
    \A n \in ChainOf(c) :
        /\ heap[n].last = IF n = c.base THEN None ELSE n - 1
        /\ heap[n].next_ = IF n = c.value THEN None ELSE n + 1

Thm_C16 ==
    \A c \in Finished :
        Returned(c) =>
            /\ LinksAsBuilt(c)
            /\ \A r \in Readers :
                  readers[r].pc = "done" =>
                      readers[r].ret =
                          at_revision(heap, readers[r].start, readers[r].id).ret

Wit_C16 ==
    \E c \in Finished :
        /\ Returned(c)
        /\ Len(c.revs) = 2
        /\ readers["a"].pc = "done"
        /\ readers["a"].start = c.value
        /\ readers["a"].ret = Str("Not Found")
        /\ readers["b"].pc = "f_write"
        /\ readers["b"].start = c.base
        /\ readers["b"].self = c.value

(***************************************************************************)
(* C20: every at_revision call ends, and binds self to each snapshot at    *)
(* most twice (one backward pass to the base at most, then one forward     *)
(* pass to the tail at most), also when calls came before it.              *)
(***************************************************************************)
Running(r) == readers[r].pc \notin {"idle", "done"}

AtMostTwice(r) ==
    \A n \in 1 .. Len(readers[r].visits) : readers[r].visits[n] <= 2

Thm_C20 ==
    /\ [](AtMostTwice("a"))
    /\ Running("a") ~> (readers["a"].pc = "done")

Wit_C20 ==
    \E c \in Finished :
        /\ Returned(c)
        /\ Len(c.revs) = 2
        /\ readers["a"].pc = "done"
        /\ readers["a"].start = c.value
        /\ readers["a"].ret = Str("Not Found")
        /\ \A n \in ChainOf(c) \ {c.base} : readers["a"].visits[n] = 2
        /\ readers["a"].visits[c.base] = 1

====
